---- MODULE Spec2Model ----
(***************************************************************************)
(* The acting-driver duty portal: the `trips' table held by the store, the *)
(* browser clients of index.tsx (one `state' object each, with the         *)
(* requests they have in flight), one caller of the functions of           *)
(* services/tripService.ts and one of services/adminService.ts, which      *)
(* write the same table.  `claims' is a history variable: per code,        *)
(* whether a claim presenting it ever succeeded, and how many succeeded    *)
(* since the stored trip was issued.                                       *)
(*                                                                         *)
(* Every supabase call is one statement executed atomically by the store;  *)
(* a handler is split where it awaits: the part up to the await builds the *)
(* request (reading the client's clock and state), the store executes the  *)
(* request and the handler's continuation runs on the response.            *)
(*                                                                         *)
(* Timestamps are epoch milliseconds in the deployment's local time zone   *)
(* (Date.getTime(), Date.getHours()); toISOString() and the timestamptz    *)
(* column keep milliseconds exactly, so a stored timestamp is its          *)
(* millisecond value.  Numbers are IEEE doubles in the program: a quotient  *)
(* of milliseconds by the hour is rounded to 53 bits, and so is its        *)
(* product by the rate; the model computes with exact rationals and takes  *)
(* away what the two roundings lose before Math.round (LostToDouble).      *)
(* The accounts table is fixed and both tables exist (error 42P01 is never *)
(* returned).                                                              *)
(***************************************************************************)
EXTENDS Integers, Sequences, FiniteSets, TLC

VARIABLES trips, now, skew, state, inflight, svc, claims

vars == <<trips, now, skew, state, inflight, svc, claims>>

-----------------------------------------------------------------------------
(* Bounds *)

MaxNow == 1

\* The history counter stops counting here.
MaxCounted == 2

Codes == {"1111"}

Drivers == {"RAJ_101"}

Clients == {"c1"}

-----------------------------------------------------------------------------
(* Business constants *)

CITY_RATE == 150

CITY_MIN_HOURS == 4

CITY_NIGHT_CHARGE_AMOUNT == 200

OUTSTATION_RATE == 1500

OUTSTATION_BLOCK_HOURS == 12

RATE_PER_HOUR == 150

MIN_HOURS == 4

NIGHT_START_HOUR == 22

HourMs == 1000 * 60 * 60

-----------------------------------------------------------------------------
(* Values *)

\* A nullable number is <<>> (null) or <<n>>.
Null == <<>>

Some(n) == <<n>>

Val(x) == x[1]

\* driver_id null (the admin form sends `value || null').
NoDriver == "null"

TripTypes == {"city", "outstation"}

\* The clock the model runs on: it starts at 18:00 and moves in steps of
\* five hours (18:00, 23:00, 04:00, ...); a client whose clock is ahead is
\* ahead by one step.
StartMs == 18 * HourMs

TickMs == 5 * HourMs

\* Every clock agrees with the store's.
Synchronised == [c1 |-> 0, s1 |-> 0]

ClockSkews == {Synchronised, [c1 |-> 1, s1 |-> 0]}

\* new Date() on process p.
DateNow(p) == StartMs + (now + skew[p]) * TickMs

\* The hour on a twelve-hour clock.
getHours12(ms) == (ms \div HourMs) % 12

\* Date.getHours()
getHours(ms) == (ms \div HourMs) % 24

\* Math.round of the rational n / d (d > 0): the nearest integer, halves up.
MathRound(n, d) == (2 * n + d) \div (2 * d)

\* One more than the whole part of n / d.
FloorPlusOne(n, d) == (n \div d) + 1

\* Math.ceil of the rational n / d (d > 0).
MathCeil(n, d) == -((-n) \div d)

Max(a, b) == IF a >= b THEN a ELSE b

\* The exponent of the double n >= 1: 2^e <= n < 2^(e+1).
Exponent(n) == CHOOSE e \in 0..20 : 2^e <= n /\ n < 2^(e + 1)

\* The remainder of r * 2^n by the hour: what is left of ms / HourMs after n
\* more binary digits of the quotient.
RECURSIVE Doubled(_, _)
Doubled(r, n) == IF n = 0 THEN r ELSE Doubled((2 * r) % HourMs, n - 1)

\* What Math.round((ms / HourMs) * rate + nc) loses to double arithmetic,
\* for ms of at least an hour: 0 or 1.  The doubles differ from the exact
\* values by less than the distance of any exact value to a half, unless
\* the exact product is on a half (k + 0.5 rupees).  Then the quotient
\* hours = ms / HourMs, rounded to 53 bits, is off by r / HourMs of its
\* last digit when it is rounded down; its product by the rate is rounded to
\* the double below k + 0.5 when that error times the rate is more than half
\* the last digit of the product, and Math.round gives k where the exact
\* value gives k + 1.  Adding nc keeps the double below the half unless the
\* sum has one digit more before the point: then the sum is rounded to
\* even, back onto the half.
LostToDouble(ms, rate, nc) ==
    LET msPerRupee == HourMs \div rate
        k == ms \div msPerRupee
        eH == Exponent(ms \div HourMs)
        eB == Exponent(k)
        r == Doubled(ms % HourMs, 52 - eH)
    IN  IF 2 * (ms % msPerRupee) # msPerRupee THEN 0
        ELSE IF ~(2 * r < HourMs /\ 2 * rate * r > HourMs * 2^(eB - eH)) THEN 0
        ELSE IF nc = 0 \/ Exponent(k + nc) = eB THEN 1
        ELSE 0

-----------------------------------------------------------------------------
(* Settlement *)

\* The settlement that bills the city minimum when a timestamp is absent.
calculateSettlementMinimumIfAbsent(t) ==
    IF t.start_time = Null \/ t.end_time = Null
    THEN [total |-> CITY_MIN_HOURS * CITY_RATE, nightCharge |-> 0]
    ELSE LET diffMs == Val(t.end_time) - Val(t.start_time)
         IN  IF t.trip_type = "city"
             THEN LET billableMs == Max(CITY_MIN_HOURS * HourMs, diffMs)
                      endHour == getHours(Val(t.end_time))
                      nc == IF endHour >= NIGHT_START_HOUR
                            THEN CITY_NIGHT_CHARGE_AMOUNT ELSE 0
                      msPerRupee == HourMs \div CITY_RATE
                  IN  [total |-> MathRound(billableMs + nc * msPerRupee, msPerRupee)
                                 - LostToDouble(billableMs, CITY_RATE, nc),
                       nightCharge |-> nc]
             ELSE LET blocks == MathCeil(diffMs, OUTSTATION_BLOCK_HOURS * HourMs)
                  IN  [total |-> blocks * OUTSTATION_RATE, nightCharge |-> 0]

\* calculateSettlement(t): hours = diffMs / HourMs stays a fraction over
\* HourMs; the city total Math.round(billableHours * CITY_RATE + nc) is
\* Math.round((billableMs + nc * msPerRupee) / msPerRupee) with
\* msPerRupee = HourMs / CITY_RATE, less what the doubles lose.  The
\* outstation quotient hours / OUTSTATION_BLOCK_HOURS is a whole number
\* exactly when diffMs is a multiple of the block, in doubles as well.
calculateSettlement(t) ==
    IF t.start_time = Null \/ t.end_time = Null
    THEN [total |-> 0, nightCharge |-> 0]
    ELSE LET diffMs == Val(t.end_time) - Val(t.start_time)
         IN  IF t.trip_type = "city"
             THEN LET billableMs == Max(CITY_MIN_HOURS * HourMs, diffMs)
                      endHour == getHours(Val(t.end_time))
                      nc == IF endHour >= NIGHT_START_HOUR
                            THEN CITY_NIGHT_CHARGE_AMOUNT ELSE 0
                      msPerRupee == HourMs \div CITY_RATE
                  IN  [total |-> MathRound(billableMs + nc * msPerRupee, msPerRupee)
                                 - LostToDouble(billableMs, CITY_RATE, nc),
                       nightCharge |-> nc]
             ELSE LET blocks == MathCeil(diffMs, OUTSTATION_BLOCK_HOURS * HourMs)
                  IN  [total |-> blocks * OUTSTATION_RATE, nightCharge |-> 0]

\* The amount of stopTripAndCalculateAmount:
\* Math.round(Math.max(MIN_HOURS, diffHours) * RATE_PER_HOUR).
finalAmount(startMs, endMs) ==
    LET billableMs == Max(MIN_HOURS * HourMs, endMs - startMs)
    IN  MathRound(billableMs, HourMs \div RATE_PER_HOUR)
        - LostToDouble(billableMs, RATE_PER_HOUR, 0)

-----------------------------------------------------------------------------
(* The store: the trips table, keyed by its primary key otp *)

Row(otp, type, status, driver, start, end, amount, nc) ==
    [otp |-> otp, trip_type |-> type, status |-> status, driver_id |-> driver,
     start_time |-> start, end_time |-> end, amount |-> amount,
     night_charge |-> nc]

\* state.activeTrip = null, and the `data' of a request that returned none.
NoTrip == Row("null", "null", "null", NoDriver, Null, Null, Null, Null)

\* The message of the error .single() returns when no row matched.
PGRST116 == "JSON object requested, multiple (or no) rows returned"

\* The message of a request that never reached the store.
FetchFailed == "TypeError: Failed to fetch"

DuplicateKey == "duplicate key value violates unique constraint"

\* The claim matching on the code alone.
ClaimUpdateAnyStatus(T, otp, startMs, driverId) ==
    IF otp \in DOMAIN T
    THEN LET row == [T[otp] EXCEPT !.status = "started",
                                   !.start_time = Some(startMs),
                                   !.driver_id = driverId]
         IN  [trips |-> [T EXCEPT ![otp] = row], data |-> row, error |-> "null"]
    ELSE [trips |-> T, data |-> NoTrip, error |-> PGRST116]

\* The claim that refuses only a completed trip.
ClaimUpdateUnlessEnded(T, otp, startMs, driverId) ==
    IF otp \in DOMAIN T /\ T[otp].status # "ended"
    THEN LET row == [T[otp] EXCEPT !.status = "started",
                                   !.start_time = Some(startMs),
                                   !.driver_id = driverId]
         IN  [trips |-> [T EXCEPT ![otp] = row], data |-> row, error |-> "null"]
    ELSE [trips |-> T, data |-> NoTrip, error |-> PGRST116]

\* The store answering a claim on a trip that is not pending with a message
\* of its own.
ClaimUpdateTellsState(T, otp, startMs, driverId) ==
    IF otp \in DOMAIN T /\ T[otp].status = "pending"
    THEN LET row == [T[otp] EXCEPT !.status = "started",
                                   !.start_time = Some(startMs),
                                   !.driver_id = driverId]
         IN  [trips |-> [T EXCEPT ![otp] = row], data |-> row, error |-> "null"]
    ELSE [trips |-> T, data |-> NoTrip,
          error |-> IF otp \in DOMAIN T THEN "Trip already claimed" ELSE PGRST116]

\* The claim whose payload lacks driver_id.
ClaimUpdateKeepsDriver(T, otp, startMs, driverId) ==
    IF otp \in DOMAIN T /\ T[otp].status = "pending"
    THEN LET row == [T[otp] EXCEPT !.status = "started",
                                   !.start_time = Some(startMs)]
         IN  [trips |-> [T EXCEPT ![otp] = row], data |-> row, error |-> "null"]
    ELSE [trips |-> T, data |-> NoTrip, error |-> PGRST116]

\* The claim whose payload lacks start_time.
ClaimUpdateNoStartTime(T, otp, startMs, driverId) ==
    IF otp \in DOMAIN T /\ T[otp].status = "pending"
    THEN LET row == [T[otp] EXCEPT !.status = "started",
                                   !.driver_id = driverId]
         IN  [trips |-> [T EXCEPT ![otp] = row], data |-> row, error |-> "null"]
    ELSE [trips |-> T, data |-> NoTrip, error |-> PGRST116]

\* from('trips').update({status: 'started', start_time, driver_id})
\*   .match({otp, status: 'pending'}).select().single()
ClaimUpdate(T, otp, startMs, driverId) ==
    IF otp \in DOMAIN T /\ T[otp].status = "pending"
    THEN LET row == [T[otp] EXCEPT !.status = "started",
                                   !.start_time = Some(startMs),
                                   !.driver_id = driverId]
         IN  [trips |-> [T EXCEPT ![otp] = row], data |-> row, error |-> "null"]
    ELSE [trips |-> T, data |-> NoTrip, error |-> PGRST116]

\* The completion whose payload carries trip_type: 'city' as well.
EndDutyUpdateAsCity(T, otp, endMs, total, nightCharge) ==
    IF otp \in DOMAIN T
    THEN LET row == [T[otp] EXCEPT !.status = "ended",
                                   !.end_time = Some(endMs),
                                   !.amount = Some(total),
                                   !.night_charge = Some(nightCharge),
                                   !.trip_type = "city"]
         IN  [trips |-> [T EXCEPT ![otp] = row], data |-> row, error |-> "null"]
    ELSE [trips |-> T, data |-> NoTrip, error |-> PGRST116]

\* from('trips').update({status: 'ended', end_time, amount, night_charge})
\*   .eq('otp', otp).select().single()
EndDutyUpdate(T, otp, endMs, total, nightCharge) ==
    IF otp \in DOMAIN T
    THEN LET row == [T[otp] EXCEPT !.status = "ended",
                                   !.end_time = Some(endMs),
                                   !.amount = Some(total),
                                   !.night_charge = Some(nightCharge)]
         IN  [trips |-> [T EXCEPT ![otp] = row], data |-> row, error |-> "null"]
    ELSE [trips |-> T, data |-> NoTrip, error |-> PGRST116]

\* from('trips').update({status: 'ended', end_time, amount})
\*   .eq('otp', otp).select().single()
StopTripUpdate(T, otp, endMs, amount) ==
    IF otp \in DOMAIN T
    THEN LET row == [T[otp] EXCEPT !.status = "ended",
                                   !.end_time = Some(endMs),
                                   !.amount = Some(amount)]
         IN  [trips |-> [T EXCEPT ![otp] = row], data |-> row, error |-> "null"]
    ELSE [trips |-> T, data |-> NoTrip, error |-> PGRST116]

\* The insert that replaces the row stored under the code (an upsert).
InsertPendingOrReplace(T, otp, driverId, type) ==
    [trips |-> [k \in DOMAIN T \cup {otp} |->
                   IF k = otp
                   THEN Row(otp, type, "pending", driverId, Null, Null, Null, Null)
                   ELSE T[k]],
     error |-> "null"]

\* The insert that starts a trip's amount at zero.
InsertPendingZeroAmount(T, otp, driverId, type) ==
    IF otp \in DOMAIN T
    THEN [trips |-> T, error |-> DuplicateKey]
    ELSE [trips |-> T @@ (otp :> Row(otp, type, "pending", driverId,
                                     Null, Null, Some(0), Null)),
          error |-> "null"]

\* from('trips').insert({otp, driver_id, trip_type, status: 'pending'}):
\* the other columns take their default, null.
InsertPending(T, otp, driverId, type) ==
    IF otp \in DOMAIN T
    THEN [trips |-> T, error |-> DuplicateKey]
    ELSE [trips |-> T @@ (otp :> Row(otp, type, "pending", driverId,
                                     Null, Null, Null, Null)),
          error |-> "null"]

\* from('trips').delete().eq('otp', otp)
DeleteRow(T, otp) == [k \in DOMAIN T \ {otp} |-> T[k]]

\* The rows .eq('status', 'started') selects.
ActiveTripsOfAnyDriver(T, authId) ==
    {T[k] : k \in {j \in DOMAIN T : T[j].status = "started"}}

\* The rows .eq('status', 'started').eq('driver_id', authId) selects.
ActiveTripsOf(T, authId) ==
    {T[k] : k \in {j \in DOMAIN T : T[j].status = "started"
                                    /\ T[j].driver_id = authId}}

-----------------------------------------------------------------------------
(* The accounts table *)

Accounts ==
    {[username |-> "ADMIN", password |-> "root", role |-> "admin"]}
    \cup {[username |-> d, password |-> "raj", role |-> "driver"] : d \in Drivers}

\* What a user may type into the login form (trimmed).
Usernames == Drivers \cup {""}

Passwords == {"raj", "root"}

\* The rows the login query of handleLogin selects, for the view it was
\* built under.
LoginRows(view, username, password) ==
    {a \in Accounts :
        /\ a.password = password
        /\ IF view = "admin" THEN a.role = "admin"
           ELSE a.role = "driver" /\ a.username = username}

-----------------------------------------------------------------------------
(* A client: the `state' object of index.tsx and what render() last drew *)

\* render(): the header shows the portal switch to a client that is not
\* authenticated and the logout button to one that is; the alert shows an
\* error; the main area is the spinner, the login form, one of the three
\* driver views or the admin view.
Screen(s) ==
    [hdr |-> IF ~s.isAuth THEN "toggle" ELSE "logout",
     alert |-> s.error # "null",
     main |-> IF s.loading THEN "loading"
              ELSE IF ~s.isAuth \/ s.authRole # s.view THEN "login"
              ELSE IF s.view = "driver"
                   THEN IF s.activeTrip.status = "ended" THEN "settlement"
                        ELSE IF s.activeTrip.status = "started" THEN "live"
                        ELSE "otp"
                   ELSE "admin",
     disabled |-> s.isAuthenticating]

render(s) == [s EXCEPT !.screen = Screen(s)]

\* The timer that registers an interval without clearing the one it holds.
startTimerNoClear(s) ==
    [s EXCEPT !.timerInterval = TRUE, !.intervals = @ + 1]

\* startTimer(): clears the interval state.timerInterval holds, if any, and
\* registers a new one, which it holds from now on.  intervals counts the
\* intervals registered with the window.
startTimer(s) ==
    [s EXCEPT !.timerInterval = TRUE,
              !.intervals = (IF s.timerInterval THEN @ - 1 ELSE @) + 1]

\* stopTimer(): clears the interval state.timerInterval holds, if any.
stopTimer(s) ==
    [s EXCEPT !.timerInterval = FALSE,
              !.intervals = IF s.timerInterval THEN @ - 1 ELSE @]

\* The contents of localStorage a page can be loaded with: none, or the
\* keys handleLogin wrote in an earlier visit.
LocalStorages ==
    {[app_view |-> "driver", is_auth |-> FALSE, auth_role |-> "null", auth_id |-> ""],
     [app_view |-> "admin", is_auth |-> TRUE, auth_role |-> "admin", auth_id |-> "ADMIN"]}
    \cup {[app_view |-> "driver", is_auth |-> TRUE, auth_role |-> "driver", auth_id |-> d]
          : d \in Drivers}

\* `let state = {...}' for the localStorage ls.
InitialState(ls) ==
    [view |-> ls.app_view, isAuth |-> ls.is_auth, authRole |-> ls.auth_role,
     authId |-> ls.auth_id, activeTrip |-> NoTrip, loading |-> FALSE,
     isAuthenticating |-> FALSE, error |-> "null", timerInterval |-> FALSE,
     intervals |-> 0,
     screen |-> [hdr |-> "toggle", alert |-> FALSE, main |-> "login",
                 disabled |-> FALSE]]

\* fetchTrips() up to its await.
fetchTripsBegin(s) == render([s EXCEPT !.loading = TRUE])

FetchRequest(from) == [op |-> "fetchTrips", from |-> from]

RecoverRequest(authId, from) ==
    [op |-> "findActiveDriverTrip", authId |-> authId, from |-> from]

\* The last lines of index.tsx: the start-up fetch or session recovery, and
\* the first render().
Startup(ls) ==
    LET s0 == InitialState(ls)
    IN  IF s0.isAuth /\ s0.authRole = "admin"
        THEN [state |-> render(fetchTripsBegin(s0)),
              inflight |-> {FetchRequest("startup")}]
        ELSE IF s0.isAuth /\ s0.authRole = "driver"
        THEN [state |-> render(s0),
              inflight |-> {RecoverRequest(s0.authId, "startup")}]
        ELSE [state |-> render(s0), inflight |-> {}]

\* The tripService caller: idle, or between the fetch and the update of
\* stopTripAndCalculateAmount. What a call returns or throws goes to the
\* caller and is not kept: a call that throws is a step that leaves the
\* store as it was.
SvcIdle == [pc |-> "idle", otp |-> "null", end_time |-> 0, amount |-> 0]

Init ==
    /\ trips = [k \in {} |-> NoTrip]
    /\ now = 0
    /\ skew = Synchronised
    /\ \E ls \in [Clients -> LocalStorages] :
          /\ state = [c \in Clients |-> Startup(ls[c]).state]
          /\ inflight = [c \in Clients |-> Startup(ls[c]).inflight]
    /\ svc = SvcIdle
    /\ claims = [k \in Codes |-> [ever |-> FALSE, trip |-> 0]]

-----------------------------------------------------------------------------
(* Handlers of index.tsx, up to their await *)

\* What a driver may type into the four OTP boxes (joined and trimmed): a
\* code the office issues, a code it never issues, too few digits.
OtpInputs == Codes \cup {"9999", "12"}

\* What the admin may type into the OTP field (trimmed): a code or nothing.
AdminOtpInputs == Codes \cup {""}

\* handleLogin(e) up to `await query.maybeSingle()'.
handleLogin(c, username, password) ==
    LET s == state[c]
    IN  /\ s.screen.main = "login" /\ ~s.screen.disabled
        /\ IF s.view = "driver" /\ username = ""
           THEN /\ state' = [state EXCEPT ![c] =
                        render([s EXCEPT !.error = "Driver ID is required"])]
                /\ UNCHANGED inflight
           ELSE /\ state' = [state EXCEPT ![c] =
                        render([s EXCEPT !.isAuthenticating = TRUE,
                                         !.error = "null"])]
                /\ inflight' = [inflight EXCEPT ![c] = @ \cup
                        {[op |-> "handleLogin", view |-> s.view,
                          username |-> username, password |-> password]}]
        /\ UNCHANGED <<trips, now, skew, svc, claims>>

\* startDuty() up to the await: the update carries the client's clock and
\* state.authId.
startDuty(c, otpValue) ==
    LET s == state[c]
    IN  /\ s.screen.main = "otp"
        /\ IF Len(otpValue) < 4
           THEN /\ state' = [state EXCEPT ![c] =
                        render([s EXCEPT !.error = "Please enter all 4 digits"])]
                /\ UNCHANGED inflight
           ELSE /\ state' = [state EXCEPT ![c] = render([s EXCEPT !.loading = TRUE])]
                /\ inflight' = [inflight EXCEPT ![c] = @ \cup
                        {[op |-> "startDuty", otp |-> otpValue,
                          start_time |-> DateNow(c), driver_id |-> s.authId]}]
        /\ UNCHANGED <<trips, now, skew, svc, claims>>

\* endDuty() up to the await, the confirm() dialog accepted: the settlement
\* is computed from the cached trip and the client's clock.
endDuty(c) ==
    LET s == state[c]
        endTime == DateNow(c)
        settlement == calculateSettlement([s.activeTrip EXCEPT !.end_time = Some(endTime)])
    IN  /\ s.screen.main = "live"
        /\ s.activeTrip # NoTrip
        /\ state' = [state EXCEPT ![c] = render([s EXCEPT !.loading = TRUE])]
        /\ inflight' = [inflight EXCEPT ![c] = @ \cup
                {[op |-> "endDuty", otp |-> s.activeTrip.otp, end_time |-> endTime,
                  amount |-> settlement.total,
                  night_charge |-> settlement.nightCharge]}]
        /\ UNCHANGED <<trips, now, skew, svc, claims>>

\* adminCreateForm.onsubmit up to the await.
adminCreate(c, otp, driver, type) ==
    LET s == state[c]
    IN  /\ s.screen.main = "admin"
        /\ IF otp = ""
           THEN /\ state' = [state EXCEPT ![c] =
                        render([s EXCEPT !.error = "OTP required"])]
                /\ UNCHANGED inflight
           ELSE /\ state' = [state EXCEPT ![c] = render([s EXCEPT !.loading = TRUE])]
                /\ inflight' = [inflight EXCEPT ![c] = @ \cup
                        {[op |-> "adminCreate", otp |-> otp, driver_id |-> driver,
                          trip_type |-> type]}]
        /\ UNCHANGED <<trips, now, skew, svc, claims>>

\* window.refreshData = fetchTrips, up to the await.
refreshData(c) ==
    /\ state[c].screen.main = "admin"
    /\ state' = [state EXCEPT ![c] = fetchTripsBegin(@)]
    /\ inflight' = [inflight EXCEPT ![c] = @ \cup {FetchRequest("refresh")}]
    /\ UNCHANGED <<trips, now, skew, svc, claims>>

\* window.toggleView
toggleView(c) ==
    /\ state[c].screen.hdr = "toggle"
    /\ state' = [state EXCEPT ![c] =
            render([@ EXCEPT !.view = IF @ = "driver" THEN "admin" ELSE "driver",
                             !.error = "null"])]
    /\ UNCHANGED <<trips, now, skew, inflight, svc, claims>>

\* window.logout
logout(c) ==
    /\ state[c].screen.hdr = "logout"
    /\ state' = [state EXCEPT ![c] =
            render(stopTimer([@ EXCEPT !.isAuth = FALSE, !.authRole = "null",
                                       !.authId = "", !.activeTrip = NoTrip,
                                       !.error = "null"]))]
    /\ UNCHANGED <<trips, now, skew, inflight, svc, claims>>

\* window.clearError
clearError(c) ==
    /\ state[c].screen.alert
    /\ state' = [state EXCEPT ![c] = render([@ EXCEPT !.error = "null"])]
    /\ UNCHANGED <<trips, now, skew, inflight, svc, claims>>

\* window.resetDriver
resetDriver(c) ==
    /\ state[c].screen.main = "settlement"
    /\ state' = [state EXCEPT ![c] = render([@ EXCEPT !.activeTrip = NoTrip])]
    /\ UNCHANGED <<trips, now, skew, inflight, svc, claims>>

-----------------------------------------------------------------------------
(* The store executes a request and the handler continues on the response. *)
(* ok = FALSE: the request did not reach the store (a connectivity         *)
(* failure); the response carries an error and the store is unchanged.     *)

\* The history of a code after a claim on it succeeded, and after a trip
\* was issued under it.
Counted(n) == IF n < MaxCounted THEN n + 1 ELSE n

ClaimSucceeded(otp) ==
    [claims EXCEPT ![otp] = [ever |-> TRUE, trip |-> Counted(@.trip)]]

TripIssued(otp) == [claims EXCEPT ![otp].trip = 0]

Received(c, r, sent) == inflight' = [inflight EXCEPT ![c] = (@ \ {r}) \cup sent]

\* "Cloud Sync Failed: " + error.message
CloudSyncFailed(message) ==
    IF message = DuplicateKey
    THEN "Cloud Sync Failed: duplicate key value violates unique constraint"
    ELSE "Cloud Sync Failed: TypeError: Failed to fetch"

\* The `finally' of handleLogin.
handleLoginFinally(s) == render([s EXCEPT !.isAuthenticating = FALSE])

\* What runs after the awaited call returns to the caller named by `from'.
Continue(s, from) ==
    IF from = "login" THEN handleLoginFinally(s)
    ELSE IF from = "issue" THEN render([s EXCEPT !.loading = FALSE])
    ELSE s

\* handleLogin from the response of the accounts query on.
handleLoginResponse(c, r, ok) ==
    LET s == state[c]
        rows == LoginRows(r.view, r.username, r.password)
    IN  /\ r.op = "handleLogin"
        /\ IF ~ok
           THEN /\ state' = [state EXCEPT ![c] = handleLoginFinally(
                        [s EXCEPT !.error = "Auth Error: TypeError: Failed to fetch"])]
                /\ Received(c, r, {})
           ELSE IF rows = {}
           THEN /\ state' = [state EXCEPT ![c] = handleLoginFinally(
                        [s EXCEPT !.error = "Login Failed: Invalid credentials."])]
                /\ Received(c, r, {})
           ELSE \E data \in rows :
                  LET s1 == [s EXCEPT !.isAuth = TRUE, !.authRole = s.view,
                                      !.authId = data.username, !.error = "null"]
                  IN  IF s.view = "admin"
                      THEN /\ state' = [state EXCEPT ![c] = fetchTripsBegin(s1)]
                           /\ Received(c, r, {FetchRequest("login")})
                      ELSE /\ state' = [state EXCEPT ![c] = s1]
                           /\ Received(c, r, {RecoverRequest(s1.authId, "login")})
        /\ UNCHANGED <<trips, now, skew, svc, claims>>

\* fetchTrips() from the response on (the list itself is not modelled).
fetchTripsResponse(c, r, ok) ==
    LET s == state[c]
        s1 == [s EXCEPT !.error = IF ok THEN "null"
                                  ELSE "Cloud Sync Error: TypeError: Failed to fetch",
                        !.loading = FALSE]
    IN  /\ r.op = "fetchTrips"
        /\ state' = [state EXCEPT ![c] = Continue(render(s1), r.from)]
        /\ Received(c, r, {})
        /\ UNCHANGED <<trips, now, skew, svc, claims>>

\* findActiveDriverTrip() from the response on: .limit(1) returns any one
\* of the driver's started trips.
findActiveDriverTripResponse(c, r, ok) ==
    LET s == state[c]
        found == IF ok THEN ActiveTripsOf(trips, r.authId) ELSE {}
    IN  /\ r.op = "findActiveDriverTrip"
        /\ \E data \in IF found = {} THEN {NoTrip} ELSE found :
              state' = [state EXCEPT ![c] = Continue(
                  render(IF data # NoTrip
                         THEN startTimer([s EXCEPT !.activeTrip = data])
                         ELSE s),
                  r.from)]
        /\ Received(c, r, {})
        /\ UNCHANGED <<trips, now, skew, svc, claims>>

\* startDuty() from the response on.
startDutyResponse(c, r, ok) ==
    LET s == state[c]
        res == ClaimUpdate(trips, r.otp, r.start_time, r.driver_id)
    IN  /\ r.op = "startDuty"
        /\ IF ok /\ res.error = "null"
           THEN /\ trips' = res.trips
                /\ claims' = ClaimSucceeded(r.otp)
                /\ state' = [state EXCEPT ![c] = render(
                        [startTimer([s EXCEPT !.activeTrip = res.data,
                                              !.error = "null"])
                            EXCEPT !.loading = FALSE])]
           ELSE /\ UNCHANGED <<trips, claims>>
                /\ state' = [state EXCEPT ![c] = render(
                        [s EXCEPT !.error = "Invalid Code. Please check the OTP.",
                                  !.loading = FALSE])]
        /\ Received(c, r, {})
        /\ UNCHANGED <<now, skew, svc>>

\* endDuty() from the response on.
endDutyResponse(c, r, ok) ==
    LET s == state[c]
        res == EndDutyUpdate(trips, r.otp, r.end_time, r.amount, r.night_charge)
    IN  /\ r.op = "endDuty"
        /\ IF ok /\ res.error = "null"
           THEN /\ trips' = res.trips
                /\ state' = [state EXCEPT ![c] = render(
                        [stopTimer([s EXCEPT !.activeTrip = res.data,
                                             !.error = "null"])
                            EXCEPT !.loading = FALSE])]
           ELSE /\ trips' = trips
                /\ state' = [state EXCEPT ![c] = render(
                        [stopTimer([s EXCEPT !.error =
                                        IF ok THEN res.error ELSE FetchFailed])
                            EXCEPT !.loading = FALSE])]
        /\ Received(c, r, {})
        /\ UNCHANGED <<now, skew, svc, claims>>

\* adminCreateForm.onsubmit from the response of the insert on.
adminCreateResponse(c, r, ok) ==
    LET s == state[c]
        res == InsertPending(trips, r.otp, r.driver_id, r.trip_type)
    IN  /\ r.op = "adminCreate"
        /\ IF ok /\ res.error = "null"
           THEN /\ trips' = res.trips
                /\ claims' = TripIssued(r.otp)
                /\ state' = [state EXCEPT ![c] =
                        fetchTripsBegin([s EXCEPT !.error = "null"])]
                /\ Received(c, r, {FetchRequest("issue")})
           ELSE /\ UNCHANGED <<trips, claims>>
                /\ state' = [state EXCEPT ![c] = render(
                        [s EXCEPT !.error = CloudSyncFailed(
                                        IF ok THEN res.error ELSE FetchFailed),
                                  !.loading = FALSE])]
                /\ Received(c, r, {})
        /\ UNCHANGED <<now, skew, svc>>

-----------------------------------------------------------------------------
(* The service functions, called by the process s1 *)

\* verifyOtpAndStartTrip(otp, driverId)
verifyOtpAndStartTrip(otp, driverId, ok) ==
    LET res == ClaimUpdate(trips, otp, DateNow("s1"), driverId)
    IN  /\ svc.pc = "idle"
        /\ IF ok /\ res.error = "null"
           THEN /\ trips' = res.trips
                /\ claims' = ClaimSucceeded(otp)
                /\ svc' = SvcIdle
           ELSE \* throws "Invalid OTP or Trip already in progress/finished."
                /\ UNCHANGED <<trips, claims>>
                /\ svc' = SvcIdle
        /\ UNCHANGED <<now, skew, state, inflight>>

\* stopTripAndCalculateAmount(otp) up to its second await: the fetch, the
\* checks and the amount.
stopTripAndCalculateAmount(otp, ok) ==
    /\ svc.pc = "idle"
    /\ IF ~ok \/ otp \notin DOMAIN trips
       THEN svc' = SvcIdle   \* throws "Trip data not found."
       ELSE IF trips[otp].status # "started" \/ trips[otp].start_time = Null
       THEN svc' = SvcIdle   \* throws "Cannot end a trip that hasn't started."
       ELSE LET end == DateNow("s1")
            IN  svc' = [pc |-> "update", otp |-> otp, end_time |-> end,
                        amount |-> finalAmount(Val(trips[otp].start_time), end)]
    /\ UNCHANGED <<trips, now, skew, state, inflight, claims>>

\* stopTripAndCalculateAmount(otp) from the update on.
stopTripUpdate(ok) ==
    LET res == StopTripUpdate(trips, svc.otp, svc.end_time, svc.amount)
    IN  /\ svc.pc = "update"
        /\ IF ok /\ res.error = "null"
           THEN /\ trips' = res.trips
                /\ svc' = SvcIdle
           ELSE /\ trips' = trips
                /\ svc' = SvcIdle
        /\ UNCHANGED <<now, skew, state, inflight, claims>>

\* deleteTrip(otp) of adminService, whose caller is not the caller of
\* tripService: one request, whatever that one is doing.
deleteTrip(otp, ok) ==
    /\ trips' = IF ok THEN DeleteRow(trips, otp) ELSE trips
    /\ UNCHANGED <<now, skew, state, inflight, svc, claims>>

\* Time passes.
Tick ==
    /\ now < MaxNow
    /\ now' = now + 1
    /\ UNCHANGED <<trips, skew, state, inflight, svc, claims>>

-----------------------------------------------------------------------------

\* One step of a client, of the service caller or of the clock; oks are the
\* outcomes a request can have: TRUE, it reaches the store; FALSE, it does
\* not.
Step(oks) ==
    \/ \E c \in Clients, u \in Usernames, p \in Passwords : handleLogin(c, u, p)
    \/ \E c \in Clients, o \in OtpInputs : startDuty(c, o)
    \/ \E c \in Clients : endDuty(c)
    \/ \E c \in Clients, o \in AdminOtpInputs, d \in Drivers \cup {NoDriver}, t \in TripTypes :
          adminCreate(c, o, d, t)
    \/ \E c \in Clients : refreshData(c)
    \/ \E c \in Clients : toggleView(c)
    \/ \E c \in Clients : logout(c)
    \/ \E c \in Clients : clearError(c)
    \/ \E c \in Clients : resetDriver(c)
    \/ \E c \in Clients, ok \in oks : \E r \in inflight[c] :
          \/ handleLoginResponse(c, r, ok)
          \/ fetchTripsResponse(c, r, ok)
          \/ findActiveDriverTripResponse(c, r, ok)
          \/ startDutyResponse(c, r, ok)
          \/ endDutyResponse(c, r, ok)
          \/ adminCreateResponse(c, r, ok)
    \/ \E o \in Codes \cup {"9999"}, d \in Drivers, ok \in oks :
          verifyOtpAndStartTrip(o, d, ok)
    \/ \E o \in Codes \cup {"9999"}, ok \in oks : stopTripAndCalculateAmount(o, ok)
    \/ \E ok \in oks : stopTripUpdate(ok)
    \/ \E o \in Codes, ok \in oks : deleteTrip(o, ok)
    \/ Tick

\* Every request reaches the store.
Next == Step({TRUE})

Spec == Init /\ [][Next]_vars

\* The same program on devices whose clocks disagree.
InitSkew ==
    /\ trips = [k \in {} |-> NoTrip]
    /\ now = 0
    /\ skew \in ClockSkews
    /\ \E ls \in [Clients -> LocalStorages] :
          /\ state = [c \in Clients |-> Startup(ls[c]).state]
          /\ inflight = [c \in Clients |-> Startup(ls[c]).inflight]
    /\ svc = SvcIdle
    /\ claims = [k \in Codes |-> [ever |-> FALSE, trip |-> 0]]

SpecSkew == InitSkew /\ [][Next]_vars

\* The same program on a network that loses requests: any request may fail
\* to reach the store.
NextFaults == Step(BOOLEAN)

SpecFaults == Init /\ [][NextFaults]_vars

\* The same program with two codes in use: the office has issued both, as
\* pending trips, before the page is loaded.
FleetCodes == {"1111", "2222"}

IssuedTrips ==
    {[k \in FleetCodes |-> Row(k, type, "pending", driver, Null, Null, Null, Null)] :
        type \in TripTypes, driver \in Drivers \cup {NoDriver}}

InitFleet ==
    /\ trips \in IssuedTrips
    /\ now = 0
    /\ skew = Synchronised
    /\ \E ls \in [Clients -> LocalStorages] :
          /\ state = [c \in Clients |-> Startup(ls[c]).state]
          /\ inflight = [c \in Clients |-> Startup(ls[c]).inflight]
    /\ svc = SvcIdle
    /\ claims = [k \in FleetCodes |-> [ever |-> FALSE, trip |-> 0]]

\* The steps of the drivers' side: login, claim, complete, recovery and the
\* service functions, on either code.
NextFleet ==
    \/ \E c \in Clients, u \in Usernames, p \in Passwords : handleLogin(c, u, p)
    \/ \E c \in Clients, o \in FleetCodes : startDuty(c, o)
    \/ \E c \in Clients : endDuty(c)
    \/ \E c \in Clients : toggleView(c)
    \/ \E c \in Clients : logout(c)
    \/ \E c \in Clients : clearError(c)
    \/ \E c \in Clients : resetDriver(c)
    \/ \E c \in Clients : \E r \in inflight[c] :
          \/ handleLoginResponse(c, r, TRUE)
          \/ fetchTripsResponse(c, r, TRUE)
          \/ findActiveDriverTripResponse(c, r, TRUE)
          \/ startDutyResponse(c, r, TRUE)
          \/ endDutyResponse(c, r, TRUE)
    \/ \E o \in FleetCodes, d \in Drivers : verifyOtpAndStartTrip(o, d, TRUE)
    \/ \E o \in FleetCodes : stopTripAndCalculateAmount(o, TRUE)
    \/ stopTripUpdate(TRUE)

SpecFleet == InitFleet /\ [][NextFleet]_vars

-----------------------------------------------------------------------------
(* The settlement on its own: calculateSettlement applied to a trip record   *)
(* held by the client, for tiers and timestamps drawn from CalcTrips; the    *)
(* result is kept in the record's amount and night_charge, where endDuty     *)
(* sends it.                                                                 *)

\* The instant h:m:s, counted from midnight of the first day.
At(h, m, sec) == h * HourMs + m * (HourMs \div 60) + sec * (HourMs \div 3600)

\* 06:00, 09:00, 15:59, 16:00, 18:00, 20:07, 21:59, 22:00, 22:00:12 and
\* 23:30 of the first day, 06:00 of the second and one millisecond later.
CalcInstants ==
    {At(6, 0, 0), At(9, 0, 0), At(15, 59, 0), At(16, 0, 0), At(18, 0, 0),
     At(20, 7, 0), At(21, 59, 0), At(22, 0, 0), At(22, 0, 12), At(23, 30, 0),
     At(30, 0, 0), At(30, 0, 0) + 1}

CalcTimes == {Null} \cup {Some(i) : i \in CalcInstants}

\* The records calculateSettlement is applied to.
CalcTrips ==
    {Row("1111", type, "started", "RAJ_101", start, end, Null, Null) :
        type \in TripTypes, start \in CalcTimes, end \in CalcTimes}

InitCalc ==
    /\ trips = [k \in {} |-> NoTrip]
    /\ now = 0
    /\ skew = Synchronised
    /\ \E t \in CalcTrips :
          state = [c \in Clients |->
                     render([InitialState([app_view |-> "driver", is_auth |-> TRUE,
                                           auth_role |-> "driver",
                                           auth_id |-> "RAJ_101"])
                                EXCEPT !.activeTrip = t])]
    /\ inflight = [c \in Clients |-> {}]
    /\ svc = SvcIdle
    /\ claims = [k \in Codes |-> [ever |-> FALSE, trip |-> 0]]

\* const { total, nightCharge } = calculateSettlement(t)
settle(c) ==
    LET t == state[c].activeTrip
        settlement == calculateSettlement(t)
    IN  /\ t.amount = Null
        /\ state' = [state EXCEPT ![c].activeTrip =
                        [t EXCEPT !.amount = Some(settlement.total),
                                  !.night_charge = Some(settlement.nightCharge)]]
        /\ UNCHANGED <<trips, now, skew, inflight, svc, claims>>

NextCalc == \E c \in Clients : settle(c)

SpecCalc == InitCalc /\ [][NextCalc]_vars

-----------------------------------------------------------------------------
(* Claims *)

InvalidCode == "Invalid Code. Please check the OTP."

\* The response to the request r of client c is handled in this step.
Responded(c, r) == r \in inflight[c] /\ r \notin inflight'[c]

\* A claim presenting the code k succeeds in this step.
ClaimSucceeds(k) == claims'[k].trip > claims[k].trip

\* C1, as stated: for every code, at most one claim presenting it ever
\* succeeds: once one has, no step is a successful claim of that code.
C1_AtMostOneClaimPerCode ==
    [][\A k \in Codes : claims[k].ever => ~ClaimSucceeds(k)]_vars

\* C1, amended: for every issued trip, at most one of the claims presenting
\* its code succeeds, and a claim that finds no pending trip under its code
\* shows the invalid-code error and leaves the store as it was.
C1_AtMostOneClaimPerIssuedTrip ==
    /\ [](\A k \in Codes : claims[k].trip <= 1)
    /\ [][\A c \in Clients : \A r \in inflight[c] :
            (/\ r.op = "startDuty"
             /\ Responded(c, r)
             /\ ~(r.otp \in DOMAIN trips /\ trips[r.otp].status = "pending"))
            => /\ trips' = trips
               /\ state'[c].error = InvalidCode]_vars

\* The stored trip was claimed once, and the client now shows the rejection
\* of a further claim while the trip is under way.
C1_Witness ==
    \E k \in Codes :
        /\ claims[k].trip = 1
        /\ k \in DOMAIN trips /\ trips[k].status = "started"
        /\ \E c \in Clients : /\ state[c].error = InvalidCode
                               /\ state[c].screen.main = "otp"


\* The trips stored before and after this step.
Kept == DOMAIN trips \cap DOMAIN trips'

\* C2: a complete call that reaches the store when the trip is not active
\* (pending or already completed) fails and changes nothing in the store.
C2_CompleteOfInactiveTripFails ==
    [][/\ \A c \in Clients : \A r \in inflight[c] :
            (/\ r.op = "endDuty"
             /\ Responded(c, r)
             /\ r.otp \in DOMAIN trips
             /\ trips[r.otp].status # "started")
            => /\ trips' = trips
               /\ state'[c].error # "null"
       /\ (/\ svc.pc = "update" /\ svc'.pc = "idle"
           /\ svc.otp \in DOMAIN trips
           /\ trips[svc.otp].status # "started")
          => trips' = trips]_vars

\* C3: the write that completes a trip is guarded by state = active: a step
\* that writes a completed row (its state, endedAt, billedAmount or
\* nightSurcharge) finds the trip active, so of several complete calls for
\* one trip only the first writes.
C3_CompleteWriteGuardedByActive ==
    [][\A k \in Kept :
        (trips'[k].status = "ended" /\ trips'[k] # trips[k])
        => trips[k].status = "started"]_vars

\* C4: once a stored trip's startedAt, endedAt, billedAmount or
\* nightSurcharge is non-null, no step changes it.
C4_SetFieldsNeverChange ==
    [][\A k \in Kept :
        /\ trips[k].start_time # Null => trips'[k].start_time = trips[k].start_time
        /\ trips[k].end_time # Null => trips'[k].end_time = trips[k].end_time
        /\ trips[k].amount # Null => trips'[k].amount = trips[k].amount
        /\ trips[k].night_charge # Null
           => trips'[k].night_charge = trips[k].night_charge]_vars

\* A night charge column left null counts as no night charge.
NightChargeOf(row) == IF row.night_charge = Null THEN 0 ELSE Val(row.night_charge)

\* C5: every completed trip's stored billedAmount and nightSurcharge are
\* the calculator's result for its stored tier, startedAt and endedAt.
C5_StoredSettlementIsCalculated ==
    \A k \in DOMAIN trips :
        trips[k].status = "ended"
        => /\ trips[k].amount = Some(calculateSettlement(trips[k]).total)
           /\ NightChargeOf(trips[k]) = calculateSettlement(trips[k]).nightCharge

\* C6: every completed trip has startedAt, endedAt and billedAmount.
C6_CompletedHasTimestampsAndAmount ==
    \A k \in DOMAIN trips :
        trips[k].status = "ended"
        => /\ trips[k].start_time # Null
           /\ trips[k].end_time # Null
           /\ trips[k].amount # Null

\* C7: every active trip has startedAt and no endedAt.
C7_ActiveHasStartAndNoEnd ==
    \A k \in DOMAIN trips :
        trips[k].status = "started"
        => trips[k].start_time # Null /\ trips[k].end_time = Null

\* A claimed trip is active while the service is about to write its
\* completion.
C7_Witness ==
    \E k \in DOMAIN trips :
        /\ trips[k].status = "started"
        /\ claims[k].trip = 1
        /\ svc.pc = "update" /\ svc.otp = k

\* C8: every pending trip has no startedAt, endedAt or billedAmount.
C8_PendingHasNoTimestampsOrAmount ==
    \A k \in DOMAIN trips :
        trips[k].status = "pending"
        => /\ trips[k].start_time = Null
           /\ trips[k].end_time = Null
           /\ trips[k].amount = Null

\* A trip is pending under a code that was claimed before (the earlier trip
\* was deleted and the code issued again).
C8_Witness ==
    \E k \in DOMAIN trips :
        /\ trips[k].status = "pending"
        /\ claims[k].ever /\ claims[k].trip = 0

\* C9: a stored trip's state changes only from pending to active and from
\* active to completed.
C9_StateOnlyMovesForward ==
    [][\A k \in Kept :
        \/ trips'[k].status = trips[k].status
        \/ trips[k].status = "pending" /\ trips'[k].status = "started"
        \/ trips[k].status = "started" /\ trips'[k].status = "ended"]_vars

\* C10: every stored trip with both timestamps has endedAt >= startedAt.
C10_EndNotBeforeStart ==
    \A k \in DOMAIN trips :
        (trips[k].start_time # Null /\ trips[k].end_time # Null)
        => Val(trips[k].end_time) >= Val(trips[k].start_time)

-----------------------------------------------------------------------------
(* Claims about the claim operation *)

\* A pending trip is stored under the code.
Pending(otp) == otp \in DOMAIN trips /\ trips[otp].status = "pending"

\* The codes a claim can present.
Presented == Codes \cup {"9999"}

\* The response to the claim r of client c is handled in this step, and the
\* store holds no pending trip under its code.
ClaimRejected(c, r) ==
    r.op = "startDuty" /\ Responded(c, r) /\ ~Pending(r.otp)

\* C11, as stated: a claim whose code matches no trip, or an active or
\* completed one, shows the invalid-code error, leaves every stored trip
\* unchanged and leaves the calling client without an active trip.
C11_RejectedClaimLeavesNoActiveTrip ==
    [][\A c \in DOMAIN state : \A r \in inflight[c] :
        ClaimRejected(c, r)
        => /\ trips' = trips
           /\ state'[c].error = InvalidCode
           /\ state'[c].activeTrip = NoTrip]_vars

\* C11, amended: such a claim shows the invalid-code error, leaves every
\* stored trip unchanged and leaves the calling client's active trip as it
\* was (none, unless session recovery installed one while the claim was in
\* flight); verifyOtpAndStartTrip on such a code changes no stored trip.
C11_RejectedClaimChangesNoTrip ==
    [][/\ \A c \in DOMAIN state : \A r \in inflight[c] :
            ClaimRejected(c, r)
            => /\ trips' = trips
               /\ state'[c].error = InvalidCode
               /\ state'[c].activeTrip = state[c].activeTrip
       /\ \A o \in Presented, d \in Drivers :
            (verifyOtpAndStartTrip(o, d, TRUE) /\ ~Pending(o))
            => trips' = trips]_vars

\* The client shows the rejection of a claim and has no active trip, while
\* the trip stored under the code is completed with its driver and start.
C11_Witness ==
    \E k \in DOMAIN trips : \E c \in DOMAIN state :
        /\ trips[k].status = "ended" /\ trips[k].start_time # Null
        /\ state[c].error = InvalidCode
        /\ state[c].activeTrip = NoTrip
        /\ state[c].screen.main = "otp"

\* The store after the trip under otp was activated for driverId at startMs:
\* that row's state, driver and start changed, everything else as it was.
Activated(otp, driverId, startMs) ==
    [trips EXCEPT ![otp] = [@ EXCEPT !.status = "started",
                                     !.driver_id = driverId,
                                     !.start_time = Some(startMs)]]

\* The readings of the clock of process p up to now.
ClockReadings(p) == {StartMs + (n + skew[p]) * TickMs : n \in 0..now}

\* C12: a successful claim finds the trip pending, makes it active with the
\* claiming driver's identifier and the caller's clock reading at the call,
\* changes nothing else in the store, and the caller holds the updated
\* record.
C12_ClaimActivatesTrip ==
    [][/\ \A c \in DOMAIN state : \A r \in inflight[c] :
            (/\ r.op = "startDuty" /\ Responded(c, r)
             /\ r.otp \in Codes /\ ClaimSucceeds(r.otp))
            => /\ Pending(r.otp)
               /\ r.start_time \in ClockReadings(c)
               /\ trips' = Activated(r.otp, r.driver_id, r.start_time)
               /\ state'[c].activeTrip = trips'[r.otp]
               /\ state'[c].activeTrip.status = "started"
       /\ \A o \in Codes, d \in Drivers :
            (verifyOtpAndStartTrip(o, d, TRUE) /\ ClaimSucceeds(o))
            => /\ Pending(o)
               /\ trips' = Activated(o, d, DateNow("s1"))]_vars

\* The client is on the live screen holding the stored active trip, which
\* carries its driver identifier.
C12_Witness ==
    \E k \in DOMAIN trips : \E c \in DOMAIN state :
        /\ trips[k].status = "started"
        /\ state[c].activeTrip = trips[k]
        /\ trips[k].driver_id = state[c].authId
        /\ state[c].screen.main = "live"
        /\ state[c].error = "null"

\* What startDuty leaves of the client state s after a rejected claim: it
\* depends on s alone.
AfterRejection(s) == render([s EXCEPT !.error = InvalidCode, !.loading = FALSE])

\* C13: what a caller observes of a rejected claim does not depend on
\* whether the code is stored: the store gives the same answer for a code
\* it does not hold and for the code of an active or completed trip, and
\* the client state after the rejection is determined by the client state
\* before it.
C13_RejectionHidesStoredState ==
    /\ [](\A o \in Presented, d \in Drivers :
            ~Pending(o)
            => ClaimUpdate(trips, o, DateNow("s1"), d)
               = [trips |-> trips, data |-> NoTrip, error |-> PGRST116])
    /\ [][\A c \in DOMAIN state : \A r \in inflight[c] :
            ClaimRejected(c, r) => state'[c] = AfterRejection(state[c])]_vars

\* The client shows the rejection of a claim while the code it can present
\* was issued and claimed and is no longer stored.
C13_Witness ==
    \E c \in DOMAIN state :
        /\ DOMAIN trips = {}
        /\ \E k \in Codes : claims[k].ever
        /\ state[c].error = InvalidCode
        /\ state[c].screen.main = "otp"

-----------------------------------------------------------------------------
(* Claims about the settlement, on the records of SpecCalc *)

\* The records whose settlement was calculated.
Settled == {state[c].activeTrip : c \in {d \in DOMAIN state :
                                            state[d].activeTrip.amount # Null}}

Timed(t) == t.start_time # Null /\ t.end_time # Null

Elapsed(t) == Val(t.end_time) - Val(t.start_time)

\* C14: for a city trip with both timestamps the billed amount is
\* max(4, elapsed hours) * 150 + night surcharge, rounded to the nearest
\* rupee with halves up (in twelve-thousandths of an hour, 24000 ms to the
\* rupee: 2N - D < 2 * amount * D <= 2N + D), and 600 + surcharge for four
\* hours or less.
C14_CityAmountIsRoundedFare ==
    \A t \in Settled :
        (Timed(t) /\ t.trip_type = "city")
        => LET billableMs == IF Elapsed(t) <= 4 * HourMs THEN 4 * HourMs
                             ELSE Elapsed(t)
               N == billableMs + Val(t.night_charge) * 24000
               B == Val(t.amount)
           IN  /\ 2 * N - 24000 < 2 * B * 24000
               /\ 2 * B * 24000 <= 2 * N + 24000
               /\ Elapsed(t) <= 4 * HourMs => B = 600 + Val(t.night_charge)

\* C15: for a city trip the night surcharge is 200 when the end instant's
\* time of day is 22:00:00 or later, and 0 otherwise, whatever the start.
C15_NightSurchargeFromEndHour ==
    \A t \in Settled :
        (Timed(t) /\ t.trip_type = "city")
        => t.night_charge =
              Some(IF Val(t.end_time) % (24 * HourMs) >= 22 * HourMs
                   THEN 200 ELSE 0)

\* A city trip from 16:00 to 22:00:00 was settled with the surcharge.
C15_Witness ==
    \E t \in Settled :
        /\ t.trip_type = "city"
        /\ t.start_time = Some(At(16, 0, 0)) /\ t.end_time = Some(At(22, 0, 0))
        /\ t.night_charge = Some(200) /\ t.amount = Some(1100)

\* C16: for an outstation trip with both timestamps the billed amount is
\* 1500 times the number of twelve-hour blocks begun: the whole number b
\* with (b - 1) * 12 h < elapsed <= b * 12 h.
C16_OutstationAmountIsBlocks ==
    \A t \in Settled :
        (Timed(t) /\ t.trip_type = "outstation")
        => \E b \in -3..3 :
              /\ t.amount = Some(b * 1500)
              /\ (b - 1) * 12 * HourMs < Elapsed(t)
              /\ Elapsed(t) <= b * 12 * HourMs

\* An outstation trip of 24 hours and a millisecond was settled at three
\* blocks.
C16_Witness ==
    \E t \in Settled :
        /\ t.trip_type = "outstation"
        /\ t.start_time = Some(At(6, 0, 0)) /\ t.end_time = Some(At(30, 0, 0) + 1)
        /\ t.amount = Some(4500)

\* C17: a trip that ends at the instant it started is billed 600 on the
\* city tier when it ends before 22:00, and 1500 on the outstation tier.
C17_ZeroDurationBilledMinimum ==
    \A t \in Settled :
        (Timed(t) /\ t.start_time = t.end_time)
        => /\ (t.trip_type = "city"
               /\ Val(t.end_time) % (24 * HourMs) < 22 * HourMs)
              => t.amount = Some(600)
           /\ t.trip_type = "outstation" => t.amount = Some(1500)

\* C19: for a record without startedAt or without endedAt, of either tier,
\* the settlement is (0, 0).
C19_AbsentTimestampSettlesZero ==
    \A t \in Settled :
        ~Timed(t) => t.amount = Some(0) /\ t.night_charge = Some(0)

\* A city record that has a start and no end was settled.
C19_Witness ==
    \E t \in Settled :
        /\ t.trip_type = "city"
        /\ t.start_time = Some(At(16, 0, 0)) /\ t.end_time = Null
        /\ t.amount = Some(0)

\* C18: every stored outstation trip that has reached ended carries a night
\* surcharge of 0, whichever entry point completed it.
C18_StoredOutstationHasNoSurcharge ==
    \A k \in DOMAIN trips :
        trips[k].status = "ended" /\ trips[k].trip_type = "outstation"
        => NightChargeOf(trips[k]) = 0

\* C18, the calculation alone: an outstation settlement has night surcharge 0
\* for every start and end, ends at or after 22:00 included.
C18_OutstationSettlementHasNoSurcharge ==
    \A t \in Settled :
        t.trip_type = "outstation" => t.night_charge = Some(0)

-----------------------------------------------------------------------------
(* Claims about session recovery, issuance and the rest of the client *)

\* The response to the recovery query r of client c is handled in this step.
Recovered(c, r) == r.op = "findActiveDriverTrip" /\ Responded(c, r)

\* The codes of the stored active trips of the driver.
ActiveOf(driver) ==
    {k \in DOMAIN trips : trips[k].status = "started" /\ trips[k].driver_id = driver}

\* C21, as stated: session recovery leaves every stored trip unchanged; when
\* the store holds an active trip of the logged-in driver it makes one such
\* trip the client's active trip and starts the timer, otherwise it leaves
\* the client without an active trip.
C21_RecoveryOrNoActiveTrip ==
    [][\A c \in DOMAIN state : \A r \in inflight[c] :
        Recovered(c, r)
        => /\ trips' = trips
           /\ IF ActiveOf(state[c].authId) # {}
              THEN /\ \E k \in ActiveOf(state[c].authId) :
                         state'[c].activeTrip = trips[k]
                   /\ state'[c].timerInterval
              ELSE state'[c].activeTrip = NoTrip]_vars

\* C21, amended: session recovery leaves every stored trip unchanged; when
\* the store holds an active trip of the driver who was logged in when the
\* recovery was started it makes one such trip the client's active trip and
\* starts the timer, otherwise it leaves the client's active trip and timer
\* as they were.
C21_RecoveryOnlyReads ==
    [][\A c \in DOMAIN state : \A r \in inflight[c] :
        Recovered(c, r)
        => /\ trips' = trips
           /\ IF ActiveOf(r.authId) # {}
              THEN /\ \E k \in ActiveOf(r.authId) :
                         state'[c].activeTrip = trips[k]
                   /\ state'[c].timerInterval
              ELSE /\ state'[c].activeTrip = state[c].activeTrip
                   /\ state'[c].timerInterval = state[c].timerInterval]_vars

\* The client holds the stored active trip of its driver with the timer
\* running while it shows the rejection of a claim: recovery installed the
\* trip, since a claim of the client's own would have cleared the error.
C21_Witness ==
    \E c \in DOMAIN state : \E k \in ActiveOf(state[c].authId) :
        /\ state[c].isAuth
        /\ state[c].activeTrip = trips[k]
        /\ state[c].timerInterval
        /\ state[c].error = InvalidCode
        /\ \A r \in inflight[c] : r.op # "findActiveDriverTrip"

\* The response to the issuance r of client c is handled in this step.
Issued(c, r) == r.op = "adminCreate" /\ Responded(c, r)

DuplicateCodeError ==
    "Cloud Sync Failed: duplicate key value violates unique constraint"

\* Issuance under a code the store does not hold adds a pending trip of the
\* chosen tier under that code and changes no other trip; under a code the
\* store holds it shows the duplicate-code error and changes no trip; every
\* stored trip is stored under its own code.
IssuanceKeepsCodesUnique ==
    /\ [](\A k \in DOMAIN trips : trips[k].otp = k)
    /\ [][\A c \in DOMAIN state : \A r \in inflight[c] :
            Issued(c, r)
            => IF r.otp \in DOMAIN trips
               THEN /\ trips' = trips
                    /\ state'[c].error = DuplicateCodeError
               ELSE /\ DOMAIN trips' = DOMAIN trips \cup {r.otp}
                    /\ \A k \in DOMAIN trips : trips'[k] = trips[k]
                    /\ trips'[r.otp].otp = r.otp
                    /\ trips'[r.otp].status = "pending"
                    /\ trips'[r.otp].trip_type = r.trip_type]_vars

\* C22, as stated: issuance creates a pending trip of the chosen tier under a
\* new code and fails with the duplicate-code error, changing nothing, under
\* a stored one; no two stored trips share a code, and a code is never given
\* to another trip: no trip is issued under a code that was claimed before.
C22_CodeNeverReassigned ==
    /\ IssuanceKeepsCodesUnique
    /\ [][\A k \in Codes :
            claims[k].ever => ~(k \notin DOMAIN trips /\ k \in DOMAIN trips')]_vars

\* C22, amended: the same, except that a code belongs to one trip only as
\* long as that trip is stored: issuance never touches a stored trip.
C22_CodeOfStoredTripNotReassigned ==
    /\ IssuanceKeepsCodesUnique
    /\ [][\A c \in DOMAIN state : \A r \in inflight[c] :
            Issued(c, r) => \A k \in Kept : trips'[k] = trips[k]]_vars

\* The admin view shows the duplicate-code error while the trip stored under
\* the code is under way.
C22_Witness ==
    \E c \in DOMAIN state : \E k \in DOMAIN trips :
        /\ state[c].error = DuplicateCodeError
        /\ state[c].screen.main = "admin"
        /\ trips[k].status = "started"

\* C23: no step changes the serviceTier of a stored trip: claim, complete,
\* session recovery and every other operation leave it as issued.
C23_ServiceTierFixed ==
    [][\A k \in Kept : trips'[k].trip_type = trips[k].trip_type]_vars

\* An outstation trip was claimed and completed by the client, which shows
\* its settlement.
C23_Witness ==
    \E c \in DOMAIN state : \E k \in DOMAIN trips :
        /\ trips[k].trip_type = "outstation"
        /\ trips[k].status = "ended" /\ trips[k].night_charge # Null
        /\ claims[k].trip = 1
        /\ state[c].activeTrip = trips[k]
        /\ state[c].screen.main = "settlement"

\* C24: every pending trip has driverId null, and every trip that was
\* claimed carries a driver identifier.
C24_DriverNullUntilClaimed ==
    \A k \in DOMAIN trips :
        /\ trips[k].status = "pending" => trips[k].driver_id = NoDriver
        /\ trips[k].status = "started" => trips[k].driver_id # NoDriver

\* C25: when a claim or a complete request of the client does not reach the
\* store, the handler sends no further request, shows the store's failure
\* message as it is (not the invalid-code error), and leaves the stored
\* trips and the client's active trip as they were.
C25_FailurePropagatedUnchanged ==
    [][\A c \in DOMAIN state : \A r \in inflight[c] :
        (startDutyResponse(c, r, FALSE) \/ endDutyResponse(c, r, FALSE))
        => /\ trips' = trips
           /\ inflight'[c] = inflight[c] \ {r}
           /\ state'[c].activeTrip = state[c].activeTrip
           /\ state'[c].error = FetchFailed]_vars

\* The response to the complete request r of client c is handled in this
\* step: endDuty finishes.
Completed(c, r) == r.op = "endDuty" /\ Responded(c, r)

PersistedByEndDuty(k, endMs) ==
    LET settlement == calculateSettlement([trips[k] EXCEPT !.end_time = Some(endMs)])
    IN  EndDutyUpdate(trips, k, endMs, settlement.total, settlement.nightCharge).trips[k]

PersistedByStopTrip(k, endMs) ==
    StopTripUpdate(trips, k, endMs, finalAmount(Val(trips[k].start_time), endMs)).trips[k]

\* C27: for every stored active trip and the present instant as its end,
\* endDuty and stopTripAndCalculateAmount persist the same state, endedAt,
\* billedAmount and nightSurcharge (a null night charge counting as 0).
C27_CompleteImplementationsAgree ==
    \A k \in DOMAIN trips :
        (trips[k].status = "started" /\ trips[k].start_time # Null)
        => LET a == PersistedByEndDuty(k, DateNow("s1"))
               b == PersistedByStopTrip(k, DateNow("s1"))
           IN  /\ a.status = b.status
               /\ a.end_time = b.end_time
               /\ a.amount = b.amount
               /\ NightChargeOf(a) = NightChargeOf(b)

\* C28: at most one stored trip is active for any given driverId.
C28_OneActiveTripPerDriver ==
    \A k \in DOMAIN trips : \A j \in DOMAIN trips :
        (/\ trips[k].status = "started" /\ trips[j].status = "started"
         /\ trips[k].driver_id = trips[j].driver_id)
        => k = j

\* C29: for a city trip with both timestamps, endedAt before startedAt
\* included, the billed amount is at least 600; for an outstation trip with
\* both timestamps it is a non-negative multiple of 1500.
C29_AmountNeverBelowMinimum ==
    \A t \in Settled :
        Timed(t)
        => /\ t.trip_type = "city" => Val(t.amount) >= 600
           /\ t.trip_type = "outstation"
              => Val(t.amount) >= 0 /\ Val(t.amount) % 1500 = 0

\* The screens of the driver view and of the admin view.
PortalScreens == {"otp", "live", "settlement", "admin"}

\* The response to the login r of client c is handled in this step and the
\* accounts table holds a row for its credentials.
LoggedIn(c, r) ==
    /\ r.op = "handleLogin" /\ Responded(c, r)
    /\ LoginRows(r.view, r.username, r.password) # {}

\* A driver or admin view is on screen only for a client that is
\* authenticated in the role of the selected view.
PortalOnlyForRole ==
    \A c \in DOMAIN state :
        state[c].screen.main \in PortalScreens
        => /\ state[c].isAuth
           /\ state[c].authRole = state[c].view
           /\ state[c].screen.main = "admin" <=> state[c].view = "admin"

\* toggleView and logout leave no driver or admin view on screen.
NoPortalAfterLeaving ==
    [][\A c \in DOMAIN state :
        (toggleView(c) \/ logout(c))
        => state'[c].screen.main \notin PortalScreens]_vars

\* C30: a driver or admin view is on screen only for a client authenticated
\* in the role of the selected view; toggleView and logout leave neither on
\* screen; and a successful handleLogin sets the authenticated role to the
\* view that was selected when the form was submitted.
C30_RoleIsViewAtSubmission ==
    /\ []PortalOnlyForRole
    /\ NoPortalAfterLeaving
    /\ [][\A c \in DOMAIN state : \A r \in inflight[c] :
            LoggedIn(c, r)
            => state'[c].isAuth /\ state'[c].authRole = r.view]_vars

====
